---------------------------- MODULE Spec2Model ----------------------------
(***************************************************************************)
(* Model of restaurant_scoring_model.py: main() loads Cuisine_rating.csv,  *)
(* computes the cuisine, location and budget tables, renders the charts    *)
(* and writes the three report files.                                      *)
(*                                                                         *)
(* Numbers.  Ratings and means are held in hundredths (4.33 is 433), so    *)
(* DataFrame.round(2) is a rounding to an integer.  The popularity factor  *)
(* 1 + log1p(n)/10 is held in units of 1e-5.  A missing numeric cell or an *)
(* undefined float is NaN; a missing text cell is NaNStr.  The arithmetic   *)
(* is exact: the representation error of binary floats is not modelled.    *)
(* calculate_cuisine_scores of notebook.py is the same function.           *)
(***************************************************************************)
EXTENDS Integers, Sequences, FiniteSets

VARIABLES fileExists, pc, columns, df, cuisine_scores, location_scores,
          budget_analysis, computed, error, outputs, events

vars == <<fileExists, pc, columns, df, cuisine_scores, location_scores,
          budget_analysis, computed, error, outputs, events>>

---------------------------------------------------------------------------
(* Bounds of the input tables *)

\* rows of the leading block of identical rows
MaxHead == 12

\* rows of the trailing block of identical rows
MaxTail == 2

---------------------------------------------------------------------------
(* Values *)

NaN == -1

NaNStr == "NaN"

AllColumns == {"Cuisines", "Location", "Budget", "FoodRating",
               "ServiceRating", "OverallRating", "UserID"}

TextColumns == {"Cuisines", "Location"}

NullOf(col) == IF col \in TextColumns THEN NaNStr ELSE NaN

\* a well-formed row of the file
BaseRow == [Cuisines |-> "Italian", Location |-> "Paris", Budget |-> 3,
            FoodRating |-> 100, ServiceRating |-> 100, OverallRating |-> 100,
            UserID |-> 1]

\* the other values a cell of each column takes
AltValues == [Cuisines |-> {"Japanese", NaNStr},
              Location |-> {NaNStr},
              Budget |-> {NaN},
              FoodRating |-> {200, NaN},
              ServiceRating |-> {200},
              OverallRating |-> {101, 200, 300, NaN},
              UserID |-> {NaN}]

\* the rows of the input: BaseRow, and BaseRow with one cell changed
Rows == {BaseRow} \cup
        {[BaseRow EXCEPT ![c] = v] : c \in {"Cuisines"}, v \in AltValues.Cuisines} \cup
        {[BaseRow EXCEPT ![c] = v] : c \in {"Location"}, v \in AltValues.Location} \cup
        {[BaseRow EXCEPT ![c] = v] : c \in {"Budget"}, v \in AltValues.Budget} \cup
        {[BaseRow EXCEPT ![c] = v] : c \in {"FoodRating"}, v \in AltValues.FoodRating} \cup
        {[BaseRow EXCEPT ![c] = v] : c \in {"ServiceRating"}, v \in AltValues.ServiceRating} \cup
        {[BaseRow EXCEPT ![c] = v] : c \in {"OverallRating"}, v \in AltValues.OverallRating} \cup
        {[BaseRow EXCEPT ![c] = v] : c \in {"UserID"}, v \in AltValues.UserID}

\* the headers of the input: every column, or one column missing
Headers == {AllColumns} \cup {AllColumns \ {c} : c \in AllColumns}

Repeat(r, n) == [i \in 1..n |-> r]

\* a row as read under a header: a column the file lacks holds nothing
Project(r, cols) == [c \in AllColumns |-> IF c \in cols THEN r[c] ELSE NullOf(c)]

\* the file's records: n1 rows r1 followed by n2 rows r2
Table(cols, r1, n1, r2, n2) ==
    Repeat(Project(r1, cols), n1) \o Repeat(Project(r2, cols), n2)

---------------------------------------------------------------------------
(* Arithmetic *)

RECURSIVE SumSeq(_)
SumSeq(s) == IF s = <<>> THEN 0 ELSE Head(s) + SumSeq(Tail(s))

\* num/den rounded to the nearest integer, halves to the even one (numpy rint)
RoundHalfEven(num, den) ==
    LET q == num \div den
        r == num % den
    IN  IF 2 * r < den THEN q
        ELSE IF 2 * r > den THEN q + 1
        ELSE IF q % 2 = 0 THEN q ELSE q + 1

\* round(log1p(n) * 10^4), n = 0 .. 40
Log1pTable == <<0, 6931, 10986, 13863, 16094, 17918, 19459, 20794, 21972,
                23026, 23979, 24849, 25649, 26391, 27081, 27726, 28332, 28904,
                29444, 29957, 30445, 30910, 31355, 31781, 32189, 32581, 32958,
                33322, 33673, 34012, 34340, 34657, 34965, 35264, 35553, 35835,
                36109, 36376, 36636, 36889, 37136>>

\* np.log1p(n), in units of 1e-4
Log1p(n) == Log1pTable[n + 1]

\* the factor with the bonus subtracted instead of added
PopularityFactorSubtracted(n) == 100000 - Log1p(n)

\* 1 + np.log1p(n) / 10, in units of 1e-5
PopularityFactor(n) == 100000 + Log1p(n)

---------------------------------------------------------------------------
(* groupby / mean / value_counts *)

\* the keys groupby and value_counts keep: the non-missing values of the column
GroupKeys(d, keyCol) ==
    {d[i][keyCol] : i \in {j \in 1..Len(d) : d[j][keyCol] # NullOf(keyCol)}}

GroupRows(d, keyCol, k) == SelectSeq(d, LAMBDA r : r[keyCol] = k)

\* the non-missing values of column col in the group
Present(d, keyCol, k, col) ==
    LET g == GroupRows(d, keyCol, k)
        p == SelectSeq(g, LAMBDA r : r[col] # NaN)
    IN  [i \in 1..Len(p) |-> p[i][col]]

\* the mean with a group of missing values only filled with 0
RoundedMeanZeroFilled(d, keyCol, k, col) ==
    LET p == Present(d, keyCol, k, col)
    IN  IF Len(p) = 0 THEN 0 ELSE RoundHalfEven(SumSeq(p), Len(p))

\* groupby(keyCol)[col].mean().round(2): the mean of the values present,
\* NaN when none is
RoundedMean(d, keyCol, k, col) ==
    LET p == Present(d, keyCol, k, col)
    IN  IF Len(p) = 0 THEN NaN ELSE RoundHalfEven(SumSeq(p), Len(p))

\* df[keyCol].value_counts()[k]: the rows carrying the key
ValueCount(d, keyCol, k) == Len(GroupRows(d, keyCol, k))

\* groupby(keyCol)[col].count(): the rows of the group whose col is present
CountPresent(d, keyCol, k, col) ==
    Len(SelectSeq(GroupRows(d, keyCol, k), LAMBDA r : r[col] # NaN))

\* the score with the service term subtracted instead of added
WeightedScoreServiceSubtracted(overall, food, service, n) ==
    IF overall = NaN \/ food = NaN \/ service = NaN THEN NaN
    ELSE RoundHalfEven((4 * overall + 4 * food - 2 * service) * PopularityFactor(n),
                       1000000)

\* (overall*0.4 + food*0.4 + service*0.2) * (1 + log1p(n)/10), then round(2)
WeightedScore(overall, food, service, n) ==
    IF overall = NaN \/ food = NaN \/ service = NaN THEN NaN
    ELSE RoundHalfEven((4 * overall + 4 * food + 2 * service) * PopularityFactor(n),
                       1000000)

\* the table of calculate_cuisine_scores and calculate_location_scores
ScoreTable(d, keyCol) ==
    {LET food == RoundedMean(d, keyCol, k, "FoodRating")
         service == RoundedMean(d, keyCol, k, "ServiceRating")
         overall == RoundedMean(d, keyCol, k, "OverallRating")
         n == ValueCount(d, keyCol, k)
     IN  [key |-> k, FoodRating |-> food, ServiceRating |-> service,
          OverallRating |-> overall, Number_of_Ratings |-> n,
          Weighted_Score |-> WeightedScore(overall, food, service, n)]
     : k \in GroupKeys(d, keyCol)}

calculate_cuisine_scores(d) == ScoreTable(d, "Cuisines")

calculate_location_scores(d) == ScoreTable(d, "Location")

\* the budget table computed as the cuisine and location tables are
calculate_budget_analysis_scored(d) == ScoreTable(d, "Budget")

calculate_budget_analysis(d) ==
    {[key |-> k,
      FoodRating |-> RoundedMean(d, "Budget", k, "FoodRating"),
      ServiceRating |-> RoundedMean(d, "Budget", k, "ServiceRating"),
      OverallRating |-> RoundedMean(d, "Budget", k, "OverallRating"),
      Number_of_Ratings |-> CountPresent(d, "Budget", k, "UserID")]
     : k \in GroupKeys(d, "Budget")}

RatingColumns == {"FoodRating", "ServiceRating", "OverallRating"}

\* the columns each aggregation reads; a missing one raises KeyError
CuisineColumns == {"Cuisines"} \cup RatingColumns

LocationColumns == {"Location"} \cup RatingColumns

BudgetColumns == {"Budget", "UserID"} \cup RatingColumns

---------------------------------------------------------------------------
(* main *)

ChartFiles == {"cuisine_scores.png", "correlation_heatmap.png",
               "budget_analysis.png", "location_scores.png",
               "ratings_vs_score.png"}

Init ==
    /\ fileExists \in BOOLEAN
    /\ pc = "start"
    /\ columns = {}
    /\ df = <<>>
    /\ cuisine_scores = {}
    /\ location_scores = {}
    /\ budget_analysis = {}
    /\ computed = {}
    /\ error = "none"
    /\ outputs = {}
    /\ events = <<>>

\* the missing file swallowed: main goes on with an empty table
LoadMissingSwallowed ==
    /\ pc = "start"
    /\ ~fileExists
    /\ pc' = "loaded"
    /\ columns' = AllColumns
    /\ df' = <<>>
    /\ events' = Append(events, "load")
    /\ UNCHANGED <<fileExists, computed, cuisine_scores, location_scores,
                   budget_analysis, error, outputs>>

\* load_and_prepare_data, the file missing: FileNotFoundError leaves main
LoadMissing ==
    /\ pc = "start"
    /\ ~fileExists
    /\ pc' = "aborted"
    /\ error' = "FileNotFoundError"
    /\ events' = Append(events, "load")
    /\ UNCHANGED <<fileExists, computed, columns, df, cuisine_scores, location_scores,
                   budget_analysis, outputs>>

\* load_and_prepare_data: the whole file is read into df
Load ==
    /\ pc = "start"
    /\ fileExists
    /\ \E cols \in Headers, r1 \in Rows, r2 \in Rows,
          n1 \in 0..MaxHead, n2 \in 0..MaxTail :
          /\ columns' = cols
          /\ df' = Table(cols, r1, n1, r2, n2)
    /\ pc' = "loaded"
    /\ events' = Append(events, "load")
    /\ UNCHANGED <<fileExists, computed, cuisine_scores, location_scores,
                   budget_analysis, error, outputs>>

\* the cuisine aggregation refusing a table of zero records
CuisineScoresRejectsEmpty ==
    /\ pc = "loaded"
    /\ events' = Append(events, "calculate_cuisine_scores")
    /\ IF CuisineColumns \subseteq columns /\ df # <<>>
       THEN /\ cuisine_scores' = calculate_cuisine_scores(df)
            /\ pc' = "cuisine_done"
            /\ computed' = computed \cup {"Cuisines"}
            /\ error' = error
       ELSE /\ pc' = "aborted"
            /\ error' = IF CuisineColumns \subseteq columns THEN "ValueError"
                         ELSE "KeyError"
            /\ computed' = computed
            /\ cuisine_scores' = cuisine_scores
    /\ UNCHANGED <<fileExists, columns, df, location_scores, budget_analysis,
                   outputs>>

\* calculate_cuisine_scores called from main; a missing column raises KeyError
CuisineScores ==
    /\ pc = "loaded"
    /\ events' = Append(events, "calculate_cuisine_scores")
    /\ IF CuisineColumns \subseteq columns
       THEN /\ cuisine_scores' = calculate_cuisine_scores(df)
            /\ pc' = "cuisine_done"
            /\ computed' = computed \cup {"Cuisines"}
            /\ error' = error
       ELSE /\ pc' = "aborted"
            /\ error' = "KeyError"
            /\ computed' = computed
            /\ cuisine_scores' = cuisine_scores
    /\ UNCHANGED <<fileExists, columns, df, location_scores, budget_analysis,
                   outputs>>

\* calculate_location_scores called from main
LocationScores ==
    /\ pc = "cuisine_done"
    /\ events' = Append(events, "calculate_location_scores")
    /\ IF LocationColumns \subseteq columns
       THEN /\ location_scores' = calculate_location_scores(df)
            /\ pc' = "location_done"
            /\ computed' = computed \cup {"Location"}
            /\ error' = error
       ELSE /\ pc' = "aborted"
            /\ error' = "KeyError"
            /\ computed' = computed
            /\ location_scores' = location_scores
    /\ UNCHANGED <<fileExists, columns, df, cuisine_scores, budget_analysis,
                   outputs>>

\* calculate_budget_analysis called from main
BudgetAnalysis ==
    /\ pc = "location_done"
    /\ events' = Append(events, "calculate_budget_analysis")
    /\ IF BudgetColumns \subseteq columns
       THEN /\ budget_analysis' = calculate_budget_analysis(df)
            /\ pc' = "budget_done"
            /\ computed' = computed \cup {"Budget"}
            /\ error' = error
       ELSE /\ pc' = "aborted"
            /\ error' = "KeyError"
            /\ computed' = computed
            /\ budget_analysis' = budget_analysis
    /\ UNCHANGED <<fileExists, columns, df, cuisine_scores, location_scores,
                   outputs>>

\* create_visualizations: the five charts
CreateVisualizations ==
    /\ pc = "budget_done"
    /\ outputs' = outputs \cup ChartFiles
    /\ pc' = "charts_done"
    /\ events' = Append(events, "create_visualizations")
    /\ UNCHANGED <<fileExists, computed, columns, df, cuisine_scores, location_scores,
                   budget_analysis, error>>

\* cuisine_scores.to_csv
SaveCuisine ==
    /\ pc = "charts_done"
    /\ outputs' = outputs \cup {"cuisine_scores.csv"}
    /\ pc' = "cuisine_saved"
    /\ events' = Append(events, "to_csv")
    /\ UNCHANGED <<fileExists, computed, columns, df, cuisine_scores, location_scores,
                   budget_analysis, error>>

\* location_scores.to_csv
SaveLocation ==
    /\ pc = "cuisine_saved"
    /\ outputs' = outputs \cup {"location_scores.csv"}
    /\ pc' = "location_saved"
    /\ events' = Append(events, "to_csv")
    /\ UNCHANGED <<fileExists, computed, columns, df, cuisine_scores, location_scores,
                   budget_analysis, error>>

\* budget_analysis.to_csv
SaveBudget ==
    /\ pc = "location_saved"
    /\ outputs' = outputs \cup {"budget_analysis.csv"}
    /\ pc' = "done"
    /\ events' = Append(events, "to_csv")
    /\ UNCHANGED <<fileExists, computed, columns, df, cuisine_scores, location_scores,
                   budget_analysis, error>>

Next ==
    \/ LoadMissing
    \/ Load
    \/ CuisineScores
    \/ LocationScores
    \/ BudgetAnalysis
    \/ CreateVisualizations
    \/ SaveCuisine
    \/ SaveLocation
    \/ SaveBudget

Spec == Init /\ [][Next]_vars

---------------------------------------------------------------------------
(* Helpers of the properties *)

Called(f) == \E i \in 1..Len(events) : events[i] = f

\* the rows of the two score tables that have been computed
ScoreRows ==
    (IF "Cuisines" \in computed THEN cuisine_scores ELSE {}) \cup
    (IF "Location" \in computed THEN location_scores ELSE {})

\* the dimensions with a Weighted_Score, and the table each produced
ScoreDims == {"Cuisines", "Location"}

ScoreTableOf(dim) == IF dim = "Cuisines" THEN cuisine_scores ELSE location_scores

RECURSIVE SumCounts(_)
SumCounts(t) ==
    IF t = {} THEN 0
    ELSE LET r == CHOOSE x \in t : TRUE
         IN  r.Number_of_Ratings + SumCounts(t \ {r})

\* the rows of d that carry no key in keyCol
HasNullKey(d, keyCol) == \E i \in 1..Len(d) : d[i][keyCol] = NullOf(keyCol)

AllNumbers(r) == r.FoodRating # NaN /\ r.ServiceRating # NaN /\ r.OverallRating # NaN

\* the reference score: the weighted base from the unrounded means, one
\* rounding at the end.  The base is the fraction num/den in units of 1e-3.
ReferenceScore(d, keyCol, k) ==
    LET pf == Present(d, keyCol, k, "FoodRating")
        ps == Present(d, keyCol, k, "ServiceRating")
        po == Present(d, keyCol, k, "OverallRating")
        nf == Len(pf)
        ns == Len(ps)
        no == Len(po)
    IN  IF nf = 0 \/ ns = 0 \/ no = 0 THEN NaN
        ELSE LET num == 4 * SumSeq(po) * nf * ns + 4 * SumSeq(pf) * no * ns
                        + 2 * SumSeq(ps) * no * nf
                 den == no * nf * ns
                 F == PopularityFactor(ValueCount(d, keyCol, k))
                 q0 == num \div den
                 r0 == num % den
                 whole == q0 * F + (r0 * F) \div den
                 frac == (r0 * F) % den
                 q == whole \div 1000000
                 m == whole % 1000000
             IN  IF m > 500000 \/ (m = 500000 /\ frac > 0) THEN q + 1
                 ELSE IF m < 500000 THEN q
                 ELSE IF q % 2 = 0 THEN q ELSE q + 1

---------------------------------------------------------------------------
(* Properties *)

\* C1: in the cuisine and location tables every group's Weighted_Score is
\* the reference formula on the unrounded per-group means, rounded once.
C1_ScoreFromUnroundedMeans ==
    \A dim \in ScoreDims \cap computed :
        \A r \in ScoreTableOf(dim) :
            r.Weighted_Score = ReferenceScore(df, dim, r.key)

\* C2: in each of the three tables the Number_of_Ratings of the groups sum
\* to the number of input records (the code excludes no record explicitly).
C2_CountConservation ==
    /\ "Cuisines" \in computed => SumCounts(cuisine_scores) = Len(df)
    /\ "Location" \in computed => SumCounts(location_scores) = Len(df)
    /\ "Budget" \in computed => SumCounts(budget_analysis) = Len(df)

\* C3: an aggregation over a table holding a record without a group key
\* fails with InvalidInputError and does not return a table.
C3_MissingKeyRaises ==
    /\ (Called("calculate_cuisine_scores") /\ CuisineColumns \subseteq columns
          /\ HasNullKey(df, "Cuisines"))
         => (error = "InvalidInputError" /\ "Cuisines" \notin computed)
    /\ (Called("calculate_location_scores") /\ LocationColumns \subseteq columns
          /\ HasNullKey(df, "Location"))
         => (error = "InvalidInputError" /\ "Location" \notin computed)
    /\ (Called("calculate_budget_analysis") /\ BudgetColumns \subseteq columns
          /\ HasNullKey(df, "Budget"))
         => (error = "InvalidInputError" /\ "Budget" \notin computed)

\* two score rows with the same three means, all numbers, A with fewer ratings
SameMeansFewerRatings(a, b) ==
    /\ AllNumbers(a) /\ AllNumbers(b)
    /\ a.FoodRating = b.FoodRating
    /\ a.ServiceRating = b.ServiceRating
    /\ a.OverallRating = b.OverallRating
    /\ a.Number_of_Ratings < b.Number_of_Ratings

\* C4 as stated: of two groups with identical means, the one with fewer
\* ratings has the strictly smaller emitted Weighted_Score.
C4_StrictlyIncreasingInPopularity ==
    \A a \in ScoreRows, b \in ScoreRows :
        SameMeansFewerRatings(a, b) => a.Weighted_Score < b.Weighted_Score

\* C4 amended: of two groups with identical (non-negative) means, the one
\* with fewer ratings has an emitted Weighted_Score that is not larger.
C4_NonDecreasingInPopularity ==
    \A a \in ScoreRows, b \in ScoreRows :
        SameMeansFewerRatings(a, b) => a.Weighted_Score <= b.Weighted_Score

C4_Witness ==
    \E a \in ScoreRows, b \in ScoreRows :
        SameMeansFewerRatings(a, b) /\ a.Weighted_Score < b.Weighted_Score

\* two score rows with the same count, all means numbers, of which exactly
\* one mean differs, and it is smaller in A
OneMeanSmaller(a, b) ==
    /\ AllNumbers(a) /\ AllNumbers(b)
    /\ a.Number_of_Ratings = b.Number_of_Ratings
    /\ \E c \in RatingColumns :
          /\ a[c] < b[c]
          /\ \A o \in RatingColumns \ {c} : a[o] = b[o]

\* C5 as stated: raising one mean, the other two and the count fixed,
\* strictly raises the emitted Weighted_Score.
C5_StrictlyIncreasingInQuality ==
    \A a \in ScoreRows, b \in ScoreRows :
        OneMeanSmaller(a, b) => a.Weighted_Score < b.Weighted_Score

\* C5 amended: raising one mean, the other two and the count fixed, never
\* lowers the emitted Weighted_Score.
C5_NonDecreasingInQuality ==
    \A a \in ScoreRows, b \in ScoreRows :
        OneMeanSmaller(a, b) => a.Weighted_Score <= b.Weighted_Score

C5_Witness ==
    \E a \in ScoreRows, b \in ScoreRows :
        /\ OneMeanSmaller(a, b)
        /\ a.ServiceRating < b.ServiceRating
        /\ a.Weighted_Score < b.Weighted_Score

\* the mean of the values present, and the count of the records of the group
MeansOverPresent(d, keyCol, r) ==
    \A c \in RatingColumns :
        LET p == Present(d, keyCol, r.key, c)
        IN  IF Len(p) = 0 THEN r[c] = NaN
            ELSE r[c] = RoundHalfEven(SumSeq(p), Len(p))

CountsEveryRecord(d, keyCol, r) ==
    r.Number_of_Ratings =
        Cardinality({i \in 1..Len(d) : d[i][keyCol] = r.key})

\* C6: in each of the three tables a missing rating is left out of the
\* group's mean of that field, and Number_of_Ratings is the number of
\* records carrying the key, whichever other fields of them are missing.
C6_MissingFieldStillCounted ==
    /\ "Cuisines" \in computed =>
          \A r \in cuisine_scores :
              MeansOverPresent(df, "Cuisines", r) /\ CountsEveryRecord(df, "Cuisines", r)
    /\ "Location" \in computed =>
          \A r \in location_scores :
              MeansOverPresent(df, "Location", r) /\ CountsEveryRecord(df, "Location", r)
    /\ "Budget" \in computed =>
          \A r \in budget_analysis :
              MeansOverPresent(df, "Budget", r) /\ CountsEveryRecord(df, "Budget", r)

ScoreFields == {"key", "FoodRating", "ServiceRating", "OverallRating",
                "Number_of_Ratings", "Weighted_Score"}

\* the distinct values of the column in d, the missing one left out
DistinctValues(d, keyCol) ==
    {d[i][keyCol] : i \in 1..Len(d)} \ {NullOf(keyCol)}

OneRowPerValue(t, d, keyCol) ==
    /\ {r.key : r \in t} = DistinctValues(d, keyCol)
    /\ Cardinality(t) = Cardinality(DistinctValues(d, keyCol))

MainOrder == <<"load", "calculate_cuisine_scores", "calculate_location_scores",
               "calculate_budget_analysis", "create_visualizations",
               "to_csv", "to_csv", "to_csv">>

\* C8: main runs load, the three aggregations, then the outputs, in that
\* order; a missing file aborts the run with FileNotFoundError before any
\* aggregation and without any output; no chart or report file exists
\* before the three aggregations have completed.
C8_LoadAggregateOutput ==
    /\ Len(events) <= Len(MainOrder)
    /\ events = SubSeq(MainOrder, 1, Len(events))
    /\ (~fileExists /\ pc # "start") =>
          /\ pc = "aborted"
          /\ error = "FileNotFoundError"
          /\ events = <<"load">>
          /\ computed = {}
          /\ outputs = {}
    /\ outputs # {} =>
          /\ computed = {"Cuisines", "Location", "Budget"}
          /\ error = "none"
          /\ fileExists

C8_Witness ==
    /\ pc = "done"
    /\ outputs = ChartFiles \cup {"cuisine_scores.csv", "location_scores.csv",
                                  "budget_analysis.csv"}
    /\ Len(df) > 0

\* C9: each aggregation called on a table of zero records (all columns
\* present) returns an empty table and raises no error.
C9_EmptyInput ==
    (df = <<>> /\ columns = AllColumns) =>
        /\ Called("calculate_cuisine_scores") =>
              ("Cuisines" \in computed /\ cuisine_scores = {})
        /\ Called("calculate_location_scores") =>
              ("Location" \in computed /\ location_scores = {})
        /\ Called("calculate_budget_analysis") =>
              ("Budget" \in computed /\ budget_analysis = {})
        /\ error = "none"

C9_Witness ==
    /\ df = <<>>
    /\ columns = AllColumns
    /\ Called("calculate_budget_analysis")

\* the keys of d whose group has no value of some rating column
UndefinedGroups(d, keyCol) ==
    {k \in DistinctValues(d, keyCol) :
        \E c \in RatingColumns : Len(Present(d, keyCol, k, c)) = 0}

\* d without the rows of the groups ks
Without(d, keyCol, ks) == SelectSeq(d, LAMBDA r : r[keyCol] \notin ks)

\* C10 for one score table: the aggregation returned; a group with a rating
\* column of missing values only has a row whose mean of that column is NaN
\* (not 0) and whose Weighted_Score is NaN; the rows of the other groups are
\* those of the table without the undefined groups.
UndefinedAggregate(t, d, keyCol) ==
    /\ \A k \in UndefinedGroups(d, keyCol) :
          \E r \in t :
              /\ r.key = k
              /\ \A c \in RatingColumns :
                    Len(Present(d, keyCol, k, c)) = 0 => r[c] = NaN
              /\ r.Weighted_Score = NaN
    /\ \A r \in t :
          r.key \notin UndefinedGroups(d, keyCol) =>
              /\ AllNumbers(r)
              /\ r.Weighted_Score # NaN
              /\ r \in ScoreTable(Without(d, keyCol, UndefinedGroups(d, keyCol)),
                                  keyCol)

\* C10: when every value of a rating field is missing for a group, the
\* aggregation still returns, the group's row holds NaN for that mean and
\* for Weighted_Score, and the other groups' rows are unaffected.
C10_UndefinedAggregate ==
    /\ (Called("calculate_cuisine_scores") /\ CuisineColumns \subseteq columns) =>
          /\ "Cuisines" \in computed
          /\ UndefinedAggregate(cuisine_scores, df, "Cuisines")
    /\ (Called("calculate_location_scores") /\ LocationColumns \subseteq columns) =>
          /\ "Location" \in computed
          /\ UndefinedAggregate(location_scores, df, "Location")

C10_Witness ==
    /\ "Cuisines" \in computed
    /\ \E r \in cuisine_scores : r.FoodRating = NaN /\ r.Weighted_Score = NaN
    /\ \E r \in cuisine_scores : AllNumbers(r) /\ r.Weighted_Score # NaN

===========================================================================
